---------------------------- MODULE Spec2Model ----------------------------
(***************************************************************************)
(* A model of the ZIP markdown editor (popwu/ZIP):                         *)
(*   - the App component's state and handlers (src/src/App.tsx),           *)
(*   - the archive codec readZipFile / createZipFile (src/src/utils/zip.ts)*)
(*   - the markdown image / link resolvers (the img and a components of    *)
(*     App.tsx).                                                           *)
(* JavaScript strings are TLA+ strings; a file's content (a Blob) is a     *)
(* sequence of bytes.                                                      *)
(***************************************************************************)
EXTENDS Integers, Sequences, FiniteSets, TLC

VARIABLES
    markdown,      \* useState('')             App.tsx:63
    images,        \* useState<ImageFile[]>    App.tsx:64
    attachments,   \* useState<Attachment[]>   App.tsx:65
    editingImage,  \* useState<ImageFile|null> App.tsx:66
    editingName,   \* useState<string|null>    App.tsx:67
    uuids,         \* how many identifiers crypto.randomUUID() has handed out
    loads,         \* readZipFile calls in flight (handleZipUpload awaiting)
    readers,       \* FileReaders in flight (handleImageSave, readAsDataURL)
    lastOp,        \* the outcome of the last handler (observation only)
    zipBlob,       \* the archive handleExportZip produced last
    reread,        \* what readZipFile made of zipBlob
    imgOut,        \* what the img component rendered last
    linkOut        \* what the a component rendered last

vars == <<markdown, images, attachments, editingImage, editingName, uuids,
          loads, readers, lastOp, zipBlob, reread, imgOut, linkOut>>

appVars == <<markdown, images, attachments, editingImage, editingName, uuids,
             loads, readers, lastOp>>

\* A value that may be null is a sequence: empty for null, else of the value.
Null == <<>>
Some(x) == <<x>>
\* The id of an object whose literal sets none (identifiers are 1, 2, ...).
Undefined == 0

(***************************************************************************)
(* Strings                                                                 *)
(***************************************************************************)
CharAt(s, i) == SubSeq(s, i, i)

\* String.prototype.endsWith
endsWith(s, t) ==
    /\ Len(t) <= Len(s)
    /\ SubSeq(s, Len(s) - Len(t) + 1, Len(s)) = t

RECURSIVE RemoveChars(_, _)
\* s.replace(/[cs]/g, ''): every character of the class cs removed.
RemoveChars(s, cs) ==
    IF s = "" THEN ""
    ELSE (IF Head(s) \in cs THEN "" ELSE Head(s)) \o RemoveChars(Tail(s), cs)

WhiteSpace == {" ", "\t", "\n", "\r", "\f"}

RECURSIVE trimStart(_)
trimStart(s) ==
    IF s # "" /\ Head(s) \in WhiteSpace THEN trimStart(Tail(s)) ELSE s

RECURSIVE trimEnd(_)
trimEnd(s) ==
    IF s # "" /\ CharAt(s, Len(s)) \in WhiteSpace
    THEN trimEnd(SubSeq(s, 1, Len(s) - 1))
    ELSE s

\* String.prototype.trim
trim(s) == trimEnd(trimStart(s))

\* The printable ASCII characters, code 32 (space) to 95 (_) and code 97 (a)
\* to 126 (~). Code 96, the grave accent, cannot be written in a TLA+ string
\* and is written as an escape, like the control characters.
AsciiLow == " !\"#$%&'()*+,-./0123456789:;<=>?@ABCDEFGHIJKLMNOPQRSTUVWXYZ[\\]^_"
AsciiHigh == "abcdefghijklmnopqrstuvwxyz{|}~"

\* String.fromCharCode for a code below 128.
Chr(b) ==
    IF b >= 32 /\ b <= 95 THEN CharAt(AsciiLow, b - 31)
    ELSE IF b >= 97 /\ b <= 126 THEN CharAt(AsciiHigh, b - 96)
    ELSE IF b = 9 THEN "\t"
    ELSE IF b = 10 THEN "\n"
    ELSE IF b = 12 THEN "\f"
    ELSE IF b = 13 THEN "\r"
    ELSE "\\x" \o ToString(b)

\* The codes of the characters Chr writes as one character.
Codes == {9, 10, 12, 13} \cup (32..95) \cup (97..126)

\* The code of each such character.
CodeOf == [c \in {Chr(b) : b \in Codes} |-> CHOOSE b \in Codes : Chr(b) = c]

\* charCodeAt of a one-character string.
Ord(c) == CodeOf[c]

HexUpper == "0123456789ABCDEF"
HexLower == "0123456789abcdef"

\* The value of each hexadecimal digit.
HexOf ==
    [c \in {CharAt(HexUpper, i) : i \in 1..16} \cup {CharAt(HexLower, i) : i \in 1..16}
       |-> (CHOOSE i \in 1..16 : CharAt(HexUpper, i) = c \/ CharAt(HexLower, i) = c) - 1]

IsHex(c) == c \in DOMAIN HexOf

HexVal(c) == HexOf[c]

\* The byte the escape %XY at position k of s stands for; -1 when there is
\* no well-formed escape there.
PctByte(s, k) ==
    IF /\ k + 2 <= Len(s)
       /\ CharAt(s, k) = "%"
       /\ IsHex(CharAt(s, k + 1))
       /\ IsHex(CharAt(s, k + 2))
    THEN 16 * HexVal(CharAt(s, k + 1)) + HexVal(CharAt(s, k + 2))
    ELSE -1

\* How many bytes the UTF-8 sequence led by byte b has; 0 when b cannot lead.
Utf8Len(b) ==
    IF b >= 194 /\ b <= 223 THEN 2
    ELSE IF b >= 224 /\ b <= 239 THEN 3
    ELSE IF b >= 240 /\ b <= 244 THEN 4
    ELSE 0

\* The code point of the UTF-8 sequence b followed by the continuation
\* bytes cs; -1 when the sequence is overlong, a surrogate or out of range.
Utf8CodePoint(b, cs) ==
    LET n  == Len(cs) + 1
        hi == IF n = 2 THEN b - 192 ELSE IF n = 3 THEN b - 224 ELSE b - 240
        cp == IF n = 2 THEN hi * 64 + (cs[1] - 128)
              ELSE IF n = 3 THEN hi * 4096 + (cs[1] - 128) * 64 + (cs[2] - 128)
              ELSE hi * 262144 + (cs[1] - 128) * 4096 + (cs[2] - 128) * 64
                   + (cs[3] - 128)
    IN  IF \/ (n = 3 /\ cp < 2048)
           \/ (n = 4 /\ cp < 65536)
           \/ (cp >= 55296 /\ cp <= 57343)
           \/ cp > 1114111
        THEN -1 ELSE cp

RECURSIVE DecodeFrom(_, _)
\* The ECMAScript Decode operation on s from position k: [ok, val], ok FALSE
\* when a URIError is thrown.
DecodeFrom(s, k) ==
    IF k > Len(s) THEN [ok |-> TRUE, val |-> ""]
    ELSE IF CharAt(s, k) # "%"
    THEN LET r == DecodeFrom(s, k + 1)
         IN  [ok |-> r.ok, val |-> CharAt(s, k) \o r.val]
    ELSE
      LET b == PctByte(s, k) IN
      IF b < 0 THEN [ok |-> FALSE, val |-> ""]
      ELSE IF b < 128
      THEN LET r == DecodeFrom(s, k + 3)
           IN  [ok |-> r.ok, val |-> Chr(b) \o r.val]
      ELSE
        LET n  == Utf8Len(b)
            cs == [j \in 1..(n - 1) |-> PctByte(s, k + 3 * j)]
        IN  IF n = 0 \/ \E j \in 1..(n - 1) : cs[j] < 128 \/ cs[j] > 191
            THEN [ok |-> FALSE, val |-> ""]
            ELSE IF Utf8CodePoint(b, cs) < 0
            THEN [ok |-> FALSE, val |-> ""]
            ELSE LET r == DecodeFrom(s, k + 3 * n)
                 IN  [ok |-> r.ok,
                      val |-> "\\u{" \o ToString(Utf8CodePoint(b, cs)) \o "}"
                              \o r.val]

\* decodeURIComponent: [ok |-> TRUE, val |-> the decoded string], or
\* [ok |-> FALSE] when it throws a URIError.
decodeURIComponent(s) ==
    LET r == DecodeFrom(s, 1)
    IN  IF r.ok THEN r ELSE [ok |-> FALSE, val |-> ""]

\* s.replace(/^[![(]|[)\]]/g, ''): one leading '!', '[' or '(' and every
\* ')' and ']' removed.
stripMarkdown(s) ==
    LET rest == IF s # "" /\ Head(s) \in {"!", "[", "("} THEN Tail(s) ELSE s
    IN  RemoveChars(rest, {")", "]"})

(***************************************************************************)
(* The asset records (src/src/types.ts)                                    *)
(***************************************************************************)
\* An ImageFile: url is modelled by the bytes fetch(url) yields.
ImageFile(id, name, data, size) ==
    [id |-> id, name |-> name, url |-> data, file |-> data, size |-> size]

\* An Attachment; id is Undefined when the object literal sets none.
Attachment(id, name, data, size) ==
    [id |-> id, name |-> name, file |-> data, size |-> size]

(***************************************************************************)
(* Reference resolution: the img and a components of ReactMarkdown         *)
(***************************************************************************)
\* The predicate of images.find in the img component.
imgMatches(img, decodedSrc) ==
    LET imgName        == img.name
        imgPath        == "images/" \o imgName
        cleanedSrc     == trim(stripMarkdown(decodedSrc))
        cleanedImgName == trim(stripMarkdown(imgName))
    IN  \/ cleanedSrc = imgPath
        \/ cleanedSrc = imgName
        \/ endsWith(cleanedSrc, imgPath)
        \/ endsWith(cleanedSrc, imgName)
        \/ cleanedSrc = cleanedImgName

\* The predicate of attachments.find in the a component.
attachMatches(attach, decodedHref) ==
    LET attachPath == "attachments/" \o attach.name
    IN  decodedHref = attachPath \/ endsWith(decodedHref, attachPath)

\* Array.prototype.find over the positions of a list, given the set of
\* positions whose element satisfies the predicate: the first one, 0 if none.
FirstOf(hits) ==
    IF hits = {} THEN 0 ELSE CHOOSE i \in hits : \A j \in hits : i <= j

\* The img component: what it renders for the source src and the image list.
\*   kind "img":      the image at position index is shown
\*   kind "notfound": the diagnostic, with the text it displays
\*   kind "throw":    decodeURIComponent threw, nothing is rendered
ImgComponent(src, imgs) ==
    LET d == decodeURIComponent(RemoveChars(src, {"!", "\\"}))
        i == FirstOf({k \in 1..Len(imgs) : imgMatches(imgs[k], d.val)})
    IN  IF ~d.ok THEN [kind |-> "throw", index |-> 0, text |-> "URIError"]
        ELSE IF i > 0 THEN [kind |-> "img", index |-> i, text |-> imgs[i].name]
        ELSE [kind |-> "notfound", index |-> 0, text |-> d.val]

\* The a component: the download button of the attachment at position index
\* (kind "attachment"), a plain link (kind "notfound"), or "throw".
AComponent(href, atts) ==
    LET d == decodeURIComponent(href)
        i == FirstOf({k \in 1..Len(atts) : attachMatches(atts[k], d.val)})
    IN  IF ~d.ok THEN [kind |-> "throw", index |-> 0, text |-> "URIError"]
        ELSE IF i > 0
        THEN [kind |-> "attachment", index |-> i, text |-> atts[i].name]
        ELSE [kind |-> "notfound", index |-> 0, text |-> href]

(***************************************************************************)
(* The archive container (JSZip, as src/src/utils/zip.ts uses it)          *)
(*                                                                         *)
(* An archive file is [valid, files]: valid is FALSE for bytes that are no *)
(* zip container (loadAsync rejects), files is the list of entries in the  *)
(* container's order, each [path, dir, data, ok]; ok is FALSE for an entry *)
(* whose stored data cannot be read back (async rejects).                  *)
(***************************************************************************)
ZipEntry(path, dir, data) == [path |-> path, dir |-> dir, data |-> data, ok |-> TRUE]

\* The position of the entry at path in files; 0 when there is none.
EntryAt(files, path) ==
    FirstOf({k \in 1..Len(files) : files[k].path = path})

\* this.files[name] = object: an entry already at that path is replaced in
\* place, a new one is added last.
PutEntry(files, e) ==
    LET k == EntryAt(files, e.path)
    IN  IF k > 0 THEN [files EXCEPT ![k] = e] ELSE Append(files, e)

\* The positions of the '/' characters of path that a character follows.
InnerSlashes(path) == {k \in 1..(Len(path) - 1) : CharAt(path, k) = "/"}

RECURSIVE AddFolders(_, _, _)
\* folderAdd for every parent folder of path, the outermost first; a folder
\* that exists is left as it is. ks is the set of slash positions still to do.
AddFolders(files, path, ks) ==
    IF ks = {} THEN files
    ELSE LET k   == CHOOSE i \in ks : \A j \in ks : i <= j
             dir == SubSeq(path, 1, k)
             nxt == IF EntryAt(files, dir) > 0 THEN files
                    ELSE Append(files, ZipEntry(dir, TRUE, <<>>))
         IN  AddFolders(nxt, path, ks \ {k})

\* zip.folder(name): the folder entry name/ (and its parents) if missing.
zipFolder(files, name) ==
    AddFolders(files, name \o "/", InnerSlashes(name \o "/") \cup {Len(name) + 1})

\* folder.file(name, data), path being the folder's root followed by name:
\* the parent folders are created, then the entry is put.
zipFile(files, path, data) ==
    PutEntry(AddFolders(files, path, InnerSlashes(path)),
             ZipEntry(path, FALSE, data))

RECURSIVE Utf8Encode(_)
\* The bytes of a string (JSZip stores a string as UTF-8).
Utf8Encode(s) == IF s = "" THEN <<>> ELSE <<Ord(Head(s))>> \o Utf8Encode(Tail(s))

RECURSIVE Utf8Decode(_)
\* zipEntry.async('text')
Utf8Decode(bytes) ==
    IF bytes = <<>> THEN "" ELSE Chr(Head(bytes)) \o Utf8Decode(Tail(bytes))

(***************************************************************************)
(* createZipFile (src/src/utils/zip.ts)                                    *)
(***************************************************************************)
RECURSIVE AddImages(_, _, _)
\* for (const image of images) imagesFolder.file(image.name, blob)
AddImages(files, imgs, k) ==
    IF k > Len(imgs) THEN files
    ELSE AddImages(zipFile(files, "images/" \o imgs[k].name, imgs[k].url),
                   imgs, k + 1)

RECURSIVE AddAttachments(_, _, _)
\* for (const attachment of attachments) attachmentsFolder.file(name, file)
AddAttachments(files, atts, k) ==
    IF k > Len(atts) THEN files
    ELSE AddAttachments(
             zipFile(files, "attachments/" \o atts[k].name, atts[k].file),
             atts, k + 1)

createZipFile(md, imgs, atts) ==
    LET z0 == zipFile(<<>>, "README.md", Utf8Encode(md))
        z1 == AddImages(zipFolder(z0, "images"), imgs, 1)
        z2 == AddAttachments(zipFolder(z1, "attachments"), atts, 1)
    IN  [valid |-> TRUE, files |-> z2]

(***************************************************************************)
(* readZipFile (src/src/utils/zip.ts)                                      *)
(***************************************************************************)
UpperCase == "ABCDEFGHIJKLMNOPQRSTUVWXYZ"
LowerCase == "abcdefghijklmnopqrstuvwxyz"

\* The lower-case letter of each upper-case letter.
LowerOf == [c \in {CharAt(UpperCase, i) : i \in 1..26} |->
               CharAt(LowerCase, CHOOSE i \in 1..26 : CharAt(UpperCase, i) = c)]

RECURSIVE toLowerCase(_)
toLowerCase(s) ==
    IF s = "" THEN ""
    ELSE (IF Head(s) \in DOMAIN LowerOf THEN LowerOf[Head(s)] ELSE Head(s))
         \o toLowerCase(Tail(s))

\* The extension test without the i flag.
isImageNameCaseSensitive(fileName) ==
    \E ext \in {".jpg", ".jpeg", ".png", ".gif", ".webp"} :
        endsWith(fileName, ext)

\* /\.(jpg|jpeg|png|gif|webp)$/i.test(fileName)
isImageName(fileName) ==
    \E ext \in {".jpg", ".jpeg", ".png", ".gif", ".webp"} :
        endsWith(toLowerCase(fileName), ext)

\* path.split('/').pop() || ''
baseName(path) ==
    LET ks == {k \in 1..Len(path) : CharAt(path, k) = "/"}
    IN  IF ks = {} THEN path
        ELSE SubSeq(path, (CHOOSE i \in ks : \A j \in ks : j <= i) + 1, Len(path))

RECURSIVE ReadEntries(_, _, _)
\* The loop over contents.files from entry k on, n identifiers having been
\* handed out: [ok, images, attachments, n]; ok is FALSE when reading an
\* entry throws.
ReadEntries(files, k, n) ==
    IF k > Len(files) THEN [ok |-> TRUE, images |-> <<>>, attachments |-> <<>>, n |-> n]
    ELSE LET e        == files[k]
             fileName == baseName(e.path)
             isImg    == ~e.dir /\ isImageName(fileName)
             isAtt    == ~e.dir /\ ~isImg /\ e.path # "README.md"
             rest     == ReadEntries(files, k + 1, IF isImg THEN n + 1 ELSE n)
         IN  IF ~e.dir /\ ~e.ok THEN [ok |-> FALSE, images |-> <<>>, attachments |-> <<>>, n |-> n]
             ELSE IF ~rest.ok THEN rest
             ELSE IF isImg
             THEN [rest EXCEPT !.images =
                      <<ImageFile(n + 1, fileName, e.data, Len(e.data))>> \o @]
             ELSE IF isAtt
             THEN [rest EXCEPT !.attachments =
                      <<Attachment(Undefined, fileName, e.data, Len(e.data))>> \o @]
             ELSE rest

\* readZipFile taking the README only from the first entry of the container.
readZipFileReadmeFirst(file, n) ==
    LET failed == [ok |-> FALSE, readme |-> "", images |-> <<>>,
                   attachments |-> <<>>, n |-> n]
        hasR   == file.files # <<>> /\ file.files[1].path = "README.md"
        body   == ReadEntries(file.files, 1, n)
    IN  IF ~file.valid \/ ~body.ok THEN failed
        ELSE [ok |-> TRUE,
              readme |-> IF hasR THEN Utf8Decode(file.files[1].data) ELSE "",
              images |-> body.images,
              attachments |-> body.attachments,
              n |-> body.n]

\* readZipFile(file), n identifiers having been handed out before the call:
\* [ok, readme, images, attachments, n], ok FALSE when the promise rejects.
readZipFile(file, n) ==
    LET failed == [ok |-> FALSE, readme |-> "", images |-> <<>>,
                   attachments |-> <<>>, n |-> n]
        r      == EntryAt(file.files, "README.md")
        hasR   == r > 0 /\ ~file.files[r].dir
        body   == ReadEntries(file.files, 1, n)
    IN  IF ~file.valid THEN failed
        ELSE IF hasR /\ ~file.files[r].ok THEN failed
        ELSE IF ~body.ok THEN failed
        ELSE [ok |-> TRUE,
              readme |-> IF hasR THEN Utf8Decode(file.files[r].data) ELSE "",
              images |-> body.images,
              attachments |-> body.attachments,
              n |-> body.n]

(***************************************************************************)
(* Bounds and inputs of the model                                          *)
(***************************************************************************)
\* Identifiers crypto.randomUUID() hands out in one run.
MaxUuids == 1
\* readZipFile calls and FileReaders in flight at once, together.
MaxPending == 1

\* A File the user picks: its name and its bytes.
File(name, data) == [name |-> name, data |-> data]

\* What the image picker hands to handleImageUpload (a FileList).
ImagePicks == { <<File("a.png", <<1>>)>> }

\* What the attachment picker hands to handleAttachmentUpload.
AttachmentPicks == { <<File("a.png", <<5, 5>>)>> }

\* README.md = "![x](images/x.png)", images/x.png of 3 bytes,
\* attachments/notes.txt of 5 bytes.
ScenarioZip ==
    [valid |-> TRUE,
     files |-> << ZipEntry("README.md", FALSE, Utf8Encode("![x](images/x.png)")),
                  ZipEntry("images/", TRUE, <<>>),
                  ZipEntry("images/x.png", FALSE, <<1, 2, 3>>),
                  ZipEntry("attachments/", TRUE, <<>>),
                  ZipEntry("attachments/notes.txt", FALSE, <<1, 2, 3, 4, 5>>) >>]

\* Bytes that are no zip container.
CorruptZip == [valid |-> FALSE, files |-> <<>>]

\* A container whose first entry reads back and whose second does not.
TornZip ==
    [valid |-> TRUE,
     files |-> << ZipEntry("images/p.png", FALSE, <<4>>),
                  [ZipEntry("attachments/q.txt", FALSE, <<4, 4>>) EXCEPT !.ok = FALSE] >>]

\* What the zip picker hands to handleZipUpload.
ZipPicks == {ScenarioZip, CorruptZip, TornZip}

\* What the image editor's canvas yields (canvas.toBlob).
EditedBlobs == { <<9, 9, 9, 9>> }

\* What the user types into the rename input.
RenameValues == {"", "  ", " x.png "}

\* What the user types into the markdown editor.
EditorTexts == {"# doc"}

(***************************************************************************)
(* The App component (src/src/App.tsx)                                     *)
(***************************************************************************)
\* The state after the first render: every useState at its initial value.
AppInit ==
    /\ markdown = ""
    /\ images = <<>>
    /\ attachments = <<>>
    /\ editingImage = Null
    /\ editingName = Null
    /\ uuids = 0
    /\ loads = <<>>
    /\ readers = <<>>
    /\ lastOp = "init"

NoOutputs ==
    /\ zipBlob = Null
    /\ reread = Null
    /\ imgOut = Null
    /\ linkOut = Null

outVars == <<zipBlob, reread, imgOut, linkOut>>

\* A removal that drops every element carrying the name of the one at i.
RemoveNamed(s, i) ==
    LET Other(a) == a.name # s[i].name IN SelectSeq(s, Other)

\* The list without its element at position i (filter by object identity).
RemoveAt(s, i) == SubSeq(s, 1, i - 1) \o SubSeq(s, i + 1, Len(s))

\* handleImageUpload: every picked file becomes an image with a fresh id.
handleImageUpload(files) ==
    /\ images' = images \o
           [k \in 1..Len(files) |->
               ImageFile(uuids + k, files[k].name, files[k].data,
                         Len(files[k].data))]
    /\ uuids' = uuids + Len(files)
    /\ lastOp' = "other"
    /\ UNCHANGED <<markdown, attachments, editingImage, editingName, loads, readers>>

\* handleAttachmentUpload: every picked file becomes an attachment with a
\* fresh id.
handleAttachmentUpload(files) ==
    /\ attachments' = attachments \o
           [k \in 1..Len(files) |->
               Attachment(uuids + k, files[k].name, files[k].data,
                          Len(files[k].data))]
    /\ uuids' = uuids + Len(files)
    /\ lastOp' = "other"
    /\ UNCHANGED <<markdown, images, editingImage, editingName, loads, readers>>

\* handleZipUpload up to its await: readZipFile(file) is started.
handleZipUpload(file) ==
    /\ loads' = Append(loads, file)
    /\ lastOp' = "other"
    /\ UNCHANGED <<markdown, images, attachments, editingImage, editingName,
                   uuids, readers>>

\* A try branch that replaces the markdown and adds the assets read to the
\* ones held.
ApplyZipContentMerging(content) ==
    /\ markdown' = content.readme
    /\ images' = images \o content.images
    /\ attachments' = attachments \o content.attachments

\* The try branch after the await: the three setters, with the content read.
ApplyZipContent(content) ==
    /\ markdown' = content.readme
    /\ images' = content.images
    /\ attachments' = content.attachments

\* A catch branch that resets the editor to the empty bundle.
CatchZipErrorClears ==
    /\ markdown' = ""
    /\ images' = <<>>
    /\ attachments' = <<>>

\* The catch branch: console.error, no setter is called.
CatchZipError ==
    UNCHANGED <<markdown, images, attachments>>

\* handleZipUpload from its await on, for the pending call at position k.
zipUploadSettled(k) ==
    LET content == readZipFile(loads[k], uuids) IN
    /\ k \in 1..Len(loads)
    /\ IF content.ok
       THEN ApplyZipContent(content) /\ lastOp' = "zipLoaded"
       ELSE CatchZipError /\ lastOp' = "zipError"
    /\ uuids' = content.n
    /\ loads' = RemoveAt(loads, k)
    /\ UNCHANGED <<editingImage, editingName, readers>>

\* handleImageEdit(image), image being the one rendered at position i.
handleImageEdit(i) ==
    /\ i \in 1..Len(images)
    /\ editingImage' = Some(images[i])
    /\ lastOp' = "other"
    /\ UNCHANGED <<markdown, images, attachments, editingName, uuids, loads, readers>>

\* The image editor's onCancel.
imageEditCancel ==
    /\ editingImage # Null
    /\ editingImage' = Null
    /\ lastOp' = "other"
    /\ UNCHANGED <<markdown, images, attachments, editingName, uuids, loads, readers>>

\* handleImageSave(editedImage), called by the image editor: a FileReader is
\* started on the edited file and the editor is closed. The reader's onload
\* closes over the editingImage of this render.
handleImageSave(data) ==
    /\ editingImage # Null
    /\ readers' = Append(readers, [id |-> editingImage[1].id, file |-> data])
    /\ editingImage' = Null
    /\ lastOp' = "other"
    /\ UNCHANGED <<markdown, images, attachments, editingName, uuids, loads>>

\* A map that replaces the content of every image, whatever its id.
savedImageAny(img, r) ==
    [img EXCEPT !.file = r.file, !.url = r.file]

\* What reader.onload makes of one image: { ...img, file: editedImage, url }.
savedImage(img, r) ==
    IF img.id = r.id THEN [img EXCEPT !.file = r.file, !.url = r.file] ELSE img

\* reader.onload of the reader at position k: setImages(prev => prev.map(..)).
readerOnload(k) ==
    /\ k \in 1..Len(readers)
    /\ images' = [i \in 1..Len(images) |-> savedImage(images[i], readers[k])]
    /\ readers' = RemoveAt(readers, k)
    /\ lastOp' = "imageSaved"
    /\ UNCHANGED <<markdown, attachments, editingImage, editingName, uuids, loads>>

\* onClick of an asset's name: setEditingName(name).
nameClick(name) ==
    /\ \/ \E i \in 1..Len(images) : images[i].name = name
       \/ \E j \in 1..Len(attachments) : attachments[j].name = name
    /\ editingName' = Some(name)
    /\ lastOp' = "other"
    /\ UNCHANGED <<markdown, images, attachments, editingImage, uuids, loads, readers>>

\* handleSubmit comparing the value as typed, without trimming it.
handleSubmitUntrimmed(name, value) ==
    IF value # "" /\ value # name THEN Some(value) ELSE Null

\* RenameInput.handleSubmit: what is passed to onRename, or Null when
\* onCancel is called instead.
handleSubmit(name, value) ==
    LET trimmedValue == trim(value)
    IN  IF trimmedValue # "" /\ trimmedValue # name THEN Some(trimmedValue) ELSE Null

\* The rename form of the image at position i is submitted with value typed.
imageRenameSubmit(i, value) ==
    LET newName == handleSubmit(images[i].name, value) IN
    /\ i \in 1..Len(images)
    /\ editingName = Some(images[i].name)
    /\ IF newName # Null
       THEN /\ images' = [images EXCEPT ![i] = [@ EXCEPT !.name = newName[1]]]
            /\ lastOp' = "renamed"
       ELSE /\ images' = images
            /\ lastOp' = "renameRejected"
    /\ editingName' = Null
    /\ UNCHANGED <<markdown, attachments, editingImage, uuids, loads, readers>>

\* The rename form of the attachment at position j is submitted.
attachmentRenameSubmit(j, value) ==
    LET newName == handleSubmit(attachments[j].name, value) IN
    /\ j \in 1..Len(attachments)
    /\ editingName = Some(attachments[j].name)
    /\ IF newName # Null
       THEN /\ attachments' = [attachments EXCEPT ![j] = [@ EXCEPT !.name = newName[1]]]
            /\ lastOp' = "renamed"
       ELSE /\ attachments' = attachments
            /\ lastOp' = "renameRejected"
    /\ editingName' = Null
    /\ UNCHANGED <<markdown, images, editingImage, uuids, loads, readers>>

\* onCancel of a rename form by Escape or blur.
renameCancel ==
    /\ editingName # Null
    /\ editingName' = Null
    /\ lastOp' = "other"
    /\ UNCHANGED <<markdown, images, attachments, editingImage, uuids, loads, readers>>

\* The delete button of the image at position i.
imageDelete(i) ==
    /\ i \in 1..Len(images)
    /\ images' = RemoveAt(images, i)
    /\ lastOp' = "other"
    /\ UNCHANGED <<markdown, attachments, editingImage, editingName, uuids, loads, readers>>

\* The delete button of the attachment at position j.
attachmentDelete(j) ==
    /\ j \in 1..Len(attachments)
    /\ attachments' = RemoveAt(attachments, j)
    /\ lastOp' = "other"
    /\ UNCHANGED <<markdown, images, editingImage, editingName, uuids, loads, readers>>

\* A removal by indexOf and splice: splice(-1, 1) drops the last element
\* when the target is not in the list.
filterOutSplice(assets, i) ==
    IF i \in DOMAIN assets THEN RemoveAt(assets, i)
    ELSE SubSeq(assets, 1, Len(assets) - 1)

\* assets.filter(a => a !== target): target is the object at position i of
\* assets, or an object at no position of it (i = 0).
filterOut(assets, i) ==
    IF i \in DOMAIN assets THEN RemoveAt(assets, i) ELSE assets

\* The delete handler of the image at position i runs a second time, the
\* image being no longer in the list it filters.
imageDeleteTwice(i) ==
    /\ i \in 1..Len(images)
    /\ images' = filterOut(filterOut(images, i), 0)
    /\ lastOp' = "removedTwice"
    /\ UNCHANGED <<markdown, attachments, editingImage, editingName, uuids, loads, readers>>

\* The delete handler of the attachment at position j runs a second time.
attachmentDeleteTwice(j) ==
    /\ j \in 1..Len(attachments)
    /\ attachments' = filterOut(filterOut(attachments, j), 0)
    /\ lastOp' = "removedTwice"
    /\ UNCHANGED <<markdown, images, editingImage, editingName, uuids, loads, readers>>

\* The markdown editor's onChange.
editorChange(value) ==
    /\ markdown # value
    /\ markdown' = value
    /\ lastOp' = "other"
    /\ UNCHANGED <<images, attachments, editingImage, editingName, uuids, loads, readers>>

Init == AppInit /\ NoOutputs

\* readZipFile calls and FileReaders in flight.
InFlight == Len(loads) + Len(readers)

\* The identifiers handed out once the pending read at position k settles.
UuidsAfter(k) == readZipFile(loads[k], uuids).n

\* The handlers, a run being cut off at MaxUuids identifiers and MaxPending
\* operations in flight.
Next ==
    \/ \E files \in ImagePicks :
           /\ uuids + Len(files) <= MaxUuids
           /\ handleImageUpload(files) /\ UNCHANGED outVars
    \/ \E files \in AttachmentPicks :
           /\ uuids + Len(files) <= MaxUuids
           /\ handleAttachmentUpload(files) /\ UNCHANGED outVars
    \/ \E file \in ZipPicks :
           /\ InFlight < MaxPending
           /\ handleZipUpload(file) /\ UNCHANGED outVars
    \/ \E k \in DOMAIN loads :
           /\ UuidsAfter(k) <= MaxUuids
           /\ zipUploadSettled(k) /\ UNCHANGED outVars
    \/ \E i \in DOMAIN images : handleImageEdit(i) /\ UNCHANGED outVars
    \/ imageEditCancel /\ UNCHANGED outVars
    \/ \E data \in EditedBlobs :
           /\ InFlight < MaxPending
           /\ handleImageSave(data) /\ UNCHANGED outVars
    \/ \E k \in DOMAIN readers : readerOnload(k) /\ UNCHANGED outVars
    \/ \E i \in DOMAIN images : nameClick(images[i].name) /\ UNCHANGED outVars
    \/ \E j \in DOMAIN attachments :
           nameClick(attachments[j].name) /\ UNCHANGED outVars
    \/ \E i \in DOMAIN images, value \in RenameValues :
           imageRenameSubmit(i, value) /\ UNCHANGED outVars
    \/ \E j \in DOMAIN attachments, value \in RenameValues :
           attachmentRenameSubmit(j, value) /\ UNCHANGED outVars
    \/ renameCancel /\ UNCHANGED outVars
    \/ \E i \in DOMAIN images : imageDelete(i) /\ UNCHANGED outVars
    \/ \E j \in DOMAIN attachments : attachmentDelete(j) /\ UNCHANGED outVars
    \/ \E value \in EditorTexts : editorChange(value) /\ UNCHANGED outVars

Spec == Init /\ [][Next]_vars

(***************************************************************************)
(* Export and re-import of a bundle: handleExportZip, and readZipFile on   *)
(* the archive it produced.                                                *)
(***************************************************************************)
\* Images, and attachments, of a bundle drawn as an input.
MaxListed == 2

\* All lists of at most n elements of S.
RECURSIVE ListsUpTo(_, _)
ListsUpTo(S, n) ==
    IF n = 0 THEN { <<>> }
    ELSE LET shorter == ListsUpTo(S, n - 1)
         IN  shorter \cup {Append(l, x) : l \in shorter, x \in S}

\* Display names an image can carry: as uploaded, renamed to a name with no
\* image extension, renamed to a name with a '/'.
CodecImageNames == {"a.png", "pic", "d/a.png"}
\* Display names an attachment can carry.
CodecAttachmentNames == {"notes.txt", "a.png", "d/notes.txt"}
CodecBlobs == { <<1>>, <<2, 2>> }
CodecTexts == {"", "![x](images/a.png)"}

\* The images of a bundle whose files are fs: identifiers first + 1, ...
ImagesOf(fs, first) ==
    [k \in 1..Len(fs) |->
        ImageFile(first + k, fs[k].name, fs[k].data, Len(fs[k].data))]

AttachmentsOf(fs, first) ==
    [k \in 1..Len(fs) |->
        Attachment(first + k, fs[k].name, fs[k].data, Len(fs[k].data))]

FilesOver(names, blobs) == {File(n, b) : n \in names, b \in blobs}

\* A bundle the editor holds, no handler being in flight.
CodecInit ==
    /\ markdown \in CodecTexts
    /\ \E fs \in ListsUpTo(FilesOver(CodecImageNames, CodecBlobs), MaxListed) :
           images = ImagesOf(fs, 0)
    /\ \E fs \in ListsUpTo(FilesOver(CodecAttachmentNames, CodecBlobs), MaxListed) :
           attachments = AttachmentsOf(fs, Len(images))
    /\ uuids = Len(images) + Len(attachments)
    /\ editingImage = Null
    /\ editingName = Null
    /\ loads = <<>>
    /\ readers = <<>>
    /\ lastOp = "init"
    /\ NoOutputs

\* handleExportZip: the archive createZipFile makes of the current state.
handleExportZip ==
    /\ zipBlob' = Some(createZipFile(markdown, images, attachments))
    /\ UNCHANGED <<reread, imgOut, linkOut>>
    /\ UNCHANGED appVars

\* readZipFile on the archive exported last (the call handleZipUpload makes
\* when the user opens that archive).
rereadZip ==
    /\ zipBlob # Null
    /\ reread' = Some(readZipFile(zipBlob[1], uuids))
    /\ UNCHANGED <<zipBlob, imgOut, linkOut>>
    /\ UNCHANGED appVars

CodecNext ==
    \/ handleExportZip
    \/ rereadZip

SpecCodec == CodecInit /\ [][CodecNext]_vars

(***************************************************************************)
(* Rendering: the img and a components on the current lists.               *)
(***************************************************************************)
ResolveImageNames == {"cat.png", "t.png", "my photo.png"}
ResolveAttachmentNames == {"notes.txt", "s.txt"}

\* The src of a markdown image.
ImgSrcs ==
    {"images/cat.png", "./images/cat.png", "images/dog.png", "cat.png",
     "images/my%20photo.png", "images/100%.png", "images/c(at.png",
     "(images/cat.png)", " images/cat.png ", "images/t.png",
     "(images/dog.png)"}

\* The href of a markdown link.
LinkHrefs ==
    {"attachments/notes.txt", "./attachments/notes.txt", "notes.txt",
     "(attachments/notes.txt)", "attachments/100%.txt", "attachments/s.txt",
     "https://example.com/"}

ResolveInit ==
    /\ markdown = ""
    /\ \E fs \in ListsUpTo(FilesOver(ResolveImageNames, {<<1>>}), MaxListed) :
           images = ImagesOf(fs, 0)
    /\ \E fs \in ListsUpTo(FilesOver(ResolveAttachmentNames, {<<1>>}), MaxListed) :
           attachments = AttachmentsOf(fs, Len(images))
    /\ uuids = Len(images) + Len(attachments)
    /\ editingImage = Null
    /\ editingName = Null
    /\ loads = <<>>
    /\ readers = <<>>
    /\ lastOp = "init"
    /\ NoOutputs

\* ReactMarkdown renders an image whose source is src.
renderImg(src) ==
    /\ imgOut' = Some([src |-> src, out |-> ImgComponent(src, images)])
    /\ UNCHANGED <<zipBlob, reread, linkOut>>
    /\ UNCHANGED appVars

\* ReactMarkdown renders a link whose target is href.
renderLink(href) ==
    /\ linkOut' = Some([href |-> href, out |-> AComponent(href, attachments)])
    /\ UNCHANGED <<zipBlob, reread, imgOut>>
    /\ UNCHANGED appVars

ResolveNext ==
    \/ \E src \in ImgSrcs : renderImg(src)
    \/ \E href \in LinkHrefs : renderLink(href)

SpecResolve == ResolveInit /\ [][ResolveNext]_vars

(***************************************************************************)
(* Properties of the editor state.                                         *)
(***************************************************************************)
\* The identifiers of every image and attachment of the current bundle.
BundleIds ==
    {images[i].id : i \in DOMAIN images}
        \cup {attachments[j].id : j \in DOMAIN attachments}

\* C3: every image and every attachment of the bundle carries an
\* identifier, and no two assets of the bundle carry the same one.
C3_IdentityInvariant ==
    /\ \A i \in DOMAIN images : images[i].id # Undefined
    /\ \A j \in DOMAIN attachments : attachments[j].id # Undefined
    /\ Cardinality(BundleIds) = Len(images) + Len(attachments)

\* C4: the recorded size of every asset is the byte length of its current
\* content.
C4_SizeInvariant ==
    /\ \A i \in DOMAIN images :
           /\ images[i].size = Len(images[i].file)
           /\ images[i].size = Len(images[i].url)
    /\ \A j \in DOMAIN attachments :
           attachments[j].size = Len(attachments[j].file)

\* No asset of the bundle has a name that is empty after trimming.
NoBlankNames ==
    /\ \A i \in DOMAIN images : trim(images[i].name) # ""
    /\ \A j \in DOMAIN attachments : trim(attachments[j].name) # ""

\* A rename form is submitted with a value that is empty after trimming.
BlankRenameSubmit ==
    \E value \in RenameValues :
        /\ trim(value) = ""
        /\ \/ \E i \in DOMAIN images : imageRenameSubmit(i, value)
           \/ \E j \in DOMAIN attachments : attachmentRenameSubmit(j, value)

\* C9: a rename whose value is empty after trimming leaves every asset as
\* it was, and no step gives an asset a name that is empty after trimming.
C9_RenameRejection ==
    [][ /\ BlankRenameSubmit => UNCHANGED <<images, attachments>>
        /\ NoBlankNames => NoBlankNames' ]_vars

\* A blank rename of the only asset, an image uploaded as a.png, has been
\* turned down (no value offered trims to a.png, so it was a blank one).
C9_BlankRenameRejected ==
    /\ lastOp = "renameRejected"
    /\ Len(images) = 1
    /\ attachments = <<>>
    /\ images[1].name = "a.png"

\* A pending archive read that fails settles in this step.
FailedLoadSettles ==
    \E k \in DOMAIN loads :
        /\ ~readZipFile(loads[k], uuids).ok
        /\ loads' = RemoveAt(loads, k)
        /\ lastOp' = "zipError"

\* A pending archive read that fails is started in this step.
FailedLoadStarts ==
    \E file \in ZipPicks :
        /\ ~readZipFile(file, uuids).ok
        /\ loads' = Append(loads, file)

\* C10: when reading an archive fails, neither starting the load nor its
\* failure changes the markdown, the images or the attachments; nothing of
\* the archive is applied.
C10_DecodeAllOrNothing ==
    [][ (FailedLoadStarts \/ FailedLoadSettles)
            => UNCHANGED <<markdown, images, attachments>> ]_vars

\* An archive failed to load while the editor held text and an image.
C10_FailedLoadOnBundle ==
    /\ lastOp = "zipError"
    /\ images # <<>>
    /\ markdown # ""

(***************************************************************************)
(* Properties of export and re-import.                                     *)
(***************************************************************************)
NamesDistinct(assets) ==
    \A i, j \in DOMAIN assets : assets[i].name = assets[j].name => i = j

\* The assets of a list as a set of (name, content) pairs.
ImageSet(imgs) == {<<imgs[i].name, imgs[i].file>> : i \in DOMAIN imgs}
AttachmentSet(atts) == {<<atts[j].name, atts[j].file>> : j \in DOMAIN atts}

\* C1: a bundle whose names are distinct within each namespace, once
\* exported and read back, has the same README, the same images and the
\* same attachments, compared by name and content.
C1_RoundTrip ==
    (reread # Null /\ NamesDistinct(images) /\ NamesDistinct(attachments))
        => /\ reread[1].ok
           /\ reread[1].readme = markdown
           /\ ImageSet(reread[1].images) = ImageSet(images)
           /\ AttachmentSet(reread[1].attachments) = AttachmentSet(attachments)

\* The file entries of an archive under a folder prefix.
FilesUnder(files, prefix) ==
    {k \in DOMAIN files :
        /\ ~files[k].dir
        /\ Len(files[k].path) > Len(prefix)
        /\ SubSeq(files[k].path, 1, Len(prefix)) = prefix}

\* The position of the last '.' of a name, 0 if it has none.
LastDot(name) ==
    LET dots == {k \in 1..Len(name) : CharAt(name, k) = "."}
    IN  IF dots = {} THEN 0 ELSE CHOOSE k \in dots : \A m \in dots : m <= k

\* How many assets up to position i carry the name of the asset at i.
NameRank(assets, i) ==
    Cardinality({m \in 1..i : assets[m].name = assets[i].name})

\* The entry name collision resolution gives the asset at position i: its
\* own name for the first of that name, -2, -3, ... before the extension
\* for the later ones.
SuffixedName(assets, i) ==
    LET name == assets[i].name
        r    == NameRank(assets, i)
        dot  == LastDot(name)
    IN  IF r = 1 THEN name
        ELSE IF dot = 0 THEN name \o "-" \o ToString(r)
        ELSE SubSeq(name, 1, dot - 1) \o "-" \o ToString(r)
                 \o SubSeq(name, dot, Len(name))

\* C2: the exported archive holds one entry per image and per attachment;
\* the first asset of a name is at <folder>/<name>, a later one at the
\* suffixed name, each entry with the content of its own asset.
C2_CollisionResolution ==
    zipBlob # Null =>
        LET files == zipBlob[1].files IN
        /\ Cardinality(FilesUnder(files, "images/")) = Len(images)
        /\ Cardinality(FilesUnder(files, "attachments/")) = Len(attachments)
        /\ \A i \in DOMAIN images :
               LET e == EntryAt(files, "images/" \o SuffixedName(images, i)) IN
               /\ e # 0
               /\ files[e].data = images[i].file
        /\ \A j \in DOMAIN attachments :
               LET e == EntryAt(files,
                            "attachments/" \o SuffixedName(attachments, j)) IN
               /\ e # 0
               /\ files[e].data = attachments[j].file

(***************************************************************************)
(* Properties of reference resolution.                                     *)
(***************************************************************************)
MarkdownPunctuation == {"!", "[", "]", "(", ")"}

\* The target after every '!', '[', ']', '(' and ')' is removed and the
\* result trimmed.
CleanedTarget(decoded) == trim(RemoveChars(decoded, MarkdownPunctuation))

\* The five match predicates on a cleaned target, for the asset name and
\* the folder prefix of its namespace.
FivePredicates(target, name, folder) ==
    \/ target = folder \o name
    \/ target = name
    \/ endsWith(target, folder \o name)
    \/ endsWith(target, name)
    \/ target = RemoveChars(name, MarkdownPunctuation)

\* C5: for a source that decodes, the img component shows an image exactly
\* when some image satisfies one of the five predicates on the decoded
\* source with every '!', '[', ']', '(' and ')' removed, trimmed.
C5_ImageMatchRule ==
    (imgOut # Null /\ decodeURIComponent(imgOut[1].src).ok
                   /\ imgOut[1].out.kind # "throw")
        => (imgOut[1].out.kind = "img"
              <=> \E i \in DOMAIN images :
                      FivePredicates(
                          CleanedTarget(decodeURIComponent(imgOut[1].src).val),
                          images[i].name, "images/"))

\* C6: rendering an image or a link ends with a matched asset or with the
\* not-found result, never with an exception.
C6_ResolutionNeverThrows ==
    /\ imgOut # Null => imgOut[1].out.kind \in {"img", "notfound"}
    /\ linkOut # Null => linkOut[1].out.kind \in {"attachment", "notfound"}

\* C7: for an href that decodes, the a component shows the attachment
\* button whenever some attachment satisfies one of the five predicates on
\* the cleaned href, with attachments/<name> as the canonical path.
C7_AttachmentSameRule ==
    (linkOut # Null /\ linkOut[1].out.kind # "throw")
        => ((\E j \in DOMAIN attachments :
                 FivePredicates(
                     CleanedTarget(decodeURIComponent(linkOut[1].href).val),
                     attachments[j].name, "attachments/"))
              => linkOut[1].out.kind = "attachment")

\* C8: with pairwise distinct image names, the source images/<n> of an
\* image of the list shows the image named n, at any position of the list.
C8_NoFalseMatch ==
    (imgOut # Null /\ NamesDistinct(images))
        => \A i \in DOMAIN images :
               imgOut[1].src = "images/" \o images[i].name
                   => /\ imgOut[1].out.kind = "img"
                      /\ imgOut[1].out.index = i

(***************************************************************************)
(* Decoding: readZipFile on archives drawn entry by entry.                 *)
(***************************************************************************)
\* Entries of an archive drawn as an input.
MaxEntries == 3

\* The entries an archive is made of; contents.files is keyed by path, so
\* the entries of one archive have pairwise distinct paths.
EntryPool ==
    { ZipEntry("README.md", FALSE, Utf8Encode("# doc")),
      ZipEntry("images/", TRUE, <<>>),
      ZipEntry("images/x.png", FALSE, <<1, 2, 3>>),
      ZipEntry("attachments/notes.txt", FALSE, <<1, 2, 3, 4, 5>>),
      ZipEntry("docs/README.md", FALSE, <<7>>),
      ZipEntry("X.PNG", FALSE, <<8, 8>>),
      ZipEntry("attachments/x.png", FALSE, <<6>>),
      [ZipEntry("bad.bin", FALSE, <<4>>) EXCEPT !.ok = FALSE] }

PathsDistinct(files) ==
    \A i, j \in DOMAIN files : files[i].path = files[j].path => i = j

\* The archives readZipFile is given: every order of every choice of at
\* most MaxEntries entries, and bytes that are no container.
DecodeArchives ==
    {[valid |-> TRUE, files |-> fs] :
        fs \in {l \in ListsUpTo(EntryPool, MaxEntries) : PathsDistinct(l)}}
        \cup {CorruptZip}

DecodeInit ==
    /\ AppInit
    /\ zipBlob \in {Some(a) : a \in DecodeArchives}
    /\ reread = Null
    /\ imgOut = Null
    /\ linkOut = Null

DecodeNext == rereadZip

SpecDecode == DecodeInit /\ [][DecodeNext]_vars

(***************************************************************************)
(* Properties of decoding.                                                 *)
(***************************************************************************)
\* The text of a path after its last '/'.
LastSegment(path) ==
    LET ks == {k \in 1..Len(path) : CharAt(path, k) = "/"}
    IN  IF ks = {} THEN path
        ELSE SubSeq(path, 1 + CHOOSE k \in ks : \A m \in ks : m <= k, Len(path))

ImageExtensions == {".jpg", ".jpeg", ".png", ".gif", ".webp"}

\* The entry is a file whose base name ends in an image extension, in any
\* letter case.
IsImageEntry(e) ==
    /\ ~e.dir
    /\ \E ext \in ImageExtensions : endsWith(toLowerCase(LastSegment(e.path)), ext)

\* The entry is a file that is neither an image nor the top-level README.md.
IsAttachmentEntry(e) == ~e.dir /\ ~IsImageEntry(e) /\ e.path # "README.md"

\* Name, content and size of the assets a list of entries stands for.
EntryTriples(es) ==
    [k \in DOMAIN es |-> <<LastSegment(es[k].path), es[k].data, Len(es[k].data)>>]

ImageTriples(imgs) ==
    [k \in DOMAIN imgs |-> <<imgs[k].name, imgs[k].file, imgs[k].size>>]

AttachmentTriples(atts) ==
    [k \in DOMAIN atts |-> <<atts[k].name, atts[k].file, atts[k].size>>]

\* The text of the README.md entry of an archive, "" when it has none.
ReadmeOf(files) ==
    LET rs == {k \in DOMAIN files : files[k].path = "README.md" /\ ~files[k].dir}
    IN  IF rs = {} THEN "" ELSE Utf8Decode(files[CHOOSE k \in rs : TRUE].data)

\* Every file entry of the archive can be read.
Readable(file) ==
    file.valid /\ \A k \in DOMAIN file.files : file.files[k].dir \/ file.files[k].ok

\* C11: decoding a readable archive gives the text of README.md ("" when
\* absent), one image per file entry whose base name has an image extension
\* in any letter case, one attachment per other file entry except the
\* top-level README.md, directories skipped, each asset named by the base
\* name, with the entry's bytes and their length as size.
C11_DecodeClassification ==
    (reread # Null /\ Readable(zipBlob[1]))
        => /\ reread[1].ok
           /\ reread[1].readme = ReadmeOf(zipBlob[1].files)
           /\ ImageTriples(reread[1].images)
                  = EntryTriples(SelectSeq(zipBlob[1].files, IsImageEntry))
           /\ \A i \in DOMAIN reread[1].images :
                  reread[1].images[i].url = reread[1].images[i].file
           /\ AttachmentTriples(reread[1].attachments)
                  = EntryTriples(SelectSeq(zipBlob[1].files, IsAttachmentEntry))

\* README.md, images/x.png of 3 bytes and attachments/notes.txt of 5 bytes
\* have been decoded into one image x.png of size 3 and one attachment
\* notes.txt of size 5.
C11_ExampleDecoded ==
    /\ reread # Null
    /\ reread[1].ok
    /\ reread[1].readme = "# doc"
    /\ ImageTriples(reread[1].images) = << <<"x.png", <<1, 2, 3>>, 3>> >>
    /\ AttachmentTriples(reread[1].attachments)
           = << <<"notes.txt", <<1, 2, 3, 4, 5>>, 5>> >>

\* The entries of files in the order p gives.
Reordered(files, p) == [k \in DOMAIN files |-> files[p[k]]]

Range(s) == {s[k] : k \in DOMAIN s}

\* C13: an archive holding the same entries in another order decodes to
\* the same outcome: the same readme text, the same set of image (name,
\* content, size) triples and the same set of attachment triples.
C13_DecodeOrderIndependent ==
    reread # Null =>
        \A p \in Permutations(DOMAIN zipBlob[1].files) :
            LET other == readZipFile(
                             [zipBlob[1] EXCEPT !.files = Reordered(@, p)], uuids)
            IN  /\ other.ok = reread[1].ok
                /\ other.readme = reread[1].readme
                /\ Range(ImageTriples(other.images))
                       = Range(ImageTriples(reread[1].images))
                /\ Range(AttachmentTriples(other.attachments))
                       = Range(AttachmentTriples(reread[1].attachments))

\* An archive of three entries whose README.md is not the first one has
\* been decoded into a readme, an image and an attachment.
C13_ShuffledArchiveDecoded ==
    /\ reread # Null
    /\ reread[1].ok
    /\ Len(zipBlob[1].files) = 3
    /\ zipBlob[1].files[1].path # "README.md"
    /\ reread[1].readme # ""
    /\ reread[1].images # <<>>
    /\ reread[1].attachments # <<>>

(***************************************************************************)
(* Renaming and removing the assets of a bundle.                           *)
(***************************************************************************)
\* Names the images and the attachments of a bundle carry; a.png is in
\* both namespaces, and twice in one.
StoreImageNames == {"a.png"}
StoreAttachmentNames == {"a.png", "b.txt"}

\* A bundle the editor holds, no handler being in flight.
StoreInit ==
    /\ markdown = ""
    /\ \E fs \in ListsUpTo(FilesOver(StoreImageNames, {<<1>>}), MaxListed) :
           images = ImagesOf(fs, 0)
    /\ \E fs \in ListsUpTo(FilesOver(StoreAttachmentNames, {<<1>>}), MaxListed) :
           attachments = AttachmentsOf(fs, Len(images))
    /\ uuids = Len(images) + Len(attachments)
    /\ editingImage = Null
    /\ editingName = Null
    /\ loads = <<>>
    /\ readers = <<>>
    /\ lastOp = "init"
    /\ NoOutputs

StoreNext ==
    \/ \E i \in DOMAIN images : nameClick(images[i].name) /\ UNCHANGED outVars
    \/ \E j \in DOMAIN attachments :
           nameClick(attachments[j].name) /\ UNCHANGED outVars
    \/ \E i \in DOMAIN images, value \in RenameValues :
           imageRenameSubmit(i, value) /\ UNCHANGED outVars
    \/ \E j \in DOMAIN attachments, value \in RenameValues :
           attachmentRenameSubmit(j, value) /\ UNCHANGED outVars
    \/ renameCancel /\ UNCHANGED outVars
    \/ \E i \in DOMAIN images : imageDelete(i) /\ UNCHANGED outVars
    \/ \E j \in DOMAIN attachments : attachmentDelete(j) /\ UNCHANGED outVars
    \/ \E i \in DOMAIN images : imageDeleteTwice(i) /\ UNCHANGED outVars
    \/ \E j \in DOMAIN attachments : attachmentDeleteTwice(j) /\ UNCHANGED outVars

SpecStore == StoreInit /\ [][StoreNext]_vars

(***************************************************************************)
(* Properties of renaming and removing.                                    *)
(***************************************************************************)
\* The list is old without exactly one of its elements, the others in
\* their order.
OneRemoved(old, new) ==
    \E k \in DOMAIN old :
        new = SubSeq(old, 1, k - 1) \o SubSeq(old, k + 1, Len(old))

\* C12: a removal run a second time, its asset being no longer in the
\* bundle, changes nothing: the bundle is what the first removal left.
C12_IdempotentRemoval ==
    [][ /\ (\E i \in DOMAIN images : imageDeleteTwice(i))
            => OneRemoved(images, images') /\ attachments' = attachments
        /\ (\E j \in DOMAIN attachments : attachmentDeleteTwice(j))
            => OneRemoved(attachments, attachments') /\ images' = images ]_vars

\* An asset has been removed twice and other assets are still there.
C12_RemovedTwice ==
    /\ lastOp = "removedTwice"
    /\ images # <<>>
    /\ attachments # <<>>

\* new is old with the name of the element at position k changed and
\* nothing else: same length, same elements elsewhere, same other fields.
OnlyRenamed(old, new, k) ==
    /\ Len(new) = Len(old)
    /\ \A m \in DOMAIN old : m # k => new[m] = old[m]
    /\ new[k].name # old[k].name
    /\ new[k] = [old[k] EXCEPT !.name = new[k].name]

\* C15: a rename changes the name of its asset and nothing else of the
\* bundle; a removal removes its asset and nothing else, the others keeping
\* their order; assets of the same name in either namespace are untouched.
C15_RenameRemoveFrame ==
    [][ /\ \A i \in DOMAIN images :
               /\ (\E value \in RenameValues :
                       imageRenameSubmit(i, value) /\ lastOp' = "renamed")
                     => OnlyRenamed(images, images', i)
                            /\ attachments' = attachments
               /\ imageDelete(i)
                     => /\ images' = SubSeq(images, 1, i - 1)
                                         \o SubSeq(images, i + 1, Len(images))
                        /\ attachments' = attachments
        /\ \A j \in DOMAIN attachments :
               /\ (\E value \in RenameValues :
                       attachmentRenameSubmit(j, value) /\ lastOp' = "renamed")
                     => OnlyRenamed(attachments, attachments', j)
                            /\ images' = images
               /\ attachmentDelete(j)
                     => /\ attachments' = SubSeq(attachments, 1, j - 1)
                               \o SubSeq(attachments, j + 1, Len(attachments))
                        /\ images' = images ]_vars

\* An image named a.png has been renamed to x.png while another image and
\* an attachment are named a.png.
C15_RenamedAmongNamesakes ==
    /\ lastOp = "renamed"
    /\ Len(images) = 2
    /\ {images[1].name, images[2].name} = {"a.png", "x.png"}
    /\ \E j \in DOMAIN attachments : attachments[j].name = "a.png"
    /\ \A j \in DOMAIN attachments : attachments[j].name # "x.png"

\* C14: when no image matches, the not-found result carries the cleaned
\* target: the decoded source, stripped of the markdown punctuation and
\* trimmed, the string the match predicates were evaluated on.
C14_MissReportsCleanedTarget ==
    (imgOut # Null /\ imgOut[1].out.kind = "notfound")
        => LET decodedSrc ==
                   decodeURIComponent(RemoveChars(imgOut[1].src, {"!", "\\"})).val
           IN  imgOut[1].out.text = trim(stripMarkdown(decodedSrc))

(***************************************************************************)
(* Overlapping archive loads, image saves and edits.                       *)
(***************************************************************************)
\* readZipFile calls and FileReaders in flight at once in an overlapping run.
MaxOverlap == 2
\* Identifiers crypto.randomUUID() hands out in an overlapping run.
MaxMinted == 2

\* A second archive, no part of which is a part of ScenarioZip.
OtherZip ==
    [valid |-> TRUE,
     files |-> << ZipEntry("README.md", FALSE, Utf8Encode("# other")),
                  ZipEntry("images/y.png", FALSE, <<7>>),
                  ZipEntry("attachments/more.txt", FALSE, <<7, 7>>) >>]

OverlapZips == {ScenarioZip, OtherZip}

OverlapNext ==
    \/ \E file \in OverlapZips :
           /\ InFlight < MaxOverlap
           /\ handleZipUpload(file) /\ UNCHANGED outVars
    \/ \E k \in DOMAIN loads :
           /\ UuidsAfter(k) <= MaxMinted
           /\ zipUploadSettled(k) /\ UNCHANGED outVars
    \/ \E i \in DOMAIN images : handleImageEdit(i) /\ UNCHANGED outVars
    \/ \E data \in EditedBlobs :
           /\ InFlight < MaxOverlap
           /\ handleImageSave(data) /\ UNCHANGED outVars
    \/ \E k \in DOMAIN readers : readerOnload(k) /\ UNCHANGED outVars
    \/ \E i \in DOMAIN images : imageDelete(i) /\ UNCHANGED outVars
    \/ \E value \in EditorTexts : editorChange(value) /\ UNCHANGED outVars

SpecOverlap == Init /\ [][OverlapNext]_vars

(***************************************************************************)
(* Properties of overlapping loads and saves.                              *)
(***************************************************************************)
\* The names of the assets an archive holds, images and attachments.
AssetNamesOf(file) ==
    {LastSegment(file.files[k].path) :
        k \in {m \in DOMAIN file.files :
                  IsImageEntry(file.files[m]) \/ IsAttachmentEntry(file.files[m])}}

\* The names of the assets the bundle holds.
BundleNames ==
    {images[i].name : i \in DOMAIN images}
        \cup {attachments[j].name : j \in DOMAIN attachments}

\* The image names of an archive, and its attachment names.
ImageNamesOf(file) ==
    {LastSegment(file.files[k].path) :
        k \in {m \in DOMAIN file.files : IsImageEntry(file.files[m])}}

AttachmentNamesOf(file) == AssetNamesOf(file) \ ImageNamesOf(file)

\* C16: whatever loads, saves and edits overlap, the bundle never mixes two
\* archives: it never holds the readme of one archive with an asset of
\* another, nor an image of one with an attachment of another.
C16_NoMixedBundle ==
    \A a, b \in OverlapZips :
        a # b =>
            /\ ~(markdown = ReadmeOf(a.files) /\ BundleNames \cap AssetNamesOf(b) # {})
            /\ ~(/\ \E i \in DOMAIN images : images[i].name \in ImageNamesOf(a)
                 /\ \E j \in DOMAIN attachments :
                        attachments[j].name \in AttachmentNamesOf(b))

\* An archive has been applied while the load of the other one, started
\* before, is still pending.
C16_LoadedDuringLoad ==
    /\ lastOp = "zipLoaded"
    /\ loads = <<ScenarioZip>>
    /\ markdown = ReadmeOf(OtherZip.files)
    /\ BundleNames = AssetNamesOf(OtherZip)

\* C17: the completion of an image save replaces the content of the image
\* carrying the edited image's id and of no other; names and ids stay, no
\* asset is added or removed, and with no image of that id nothing changes.
C17_SaveAppliesToOwnAsset ==
    [][ \A k \in DOMAIN readers :
            readerOnload(k)
                => /\ Len(images') = Len(images)
                   /\ \A i \in DOMAIN images :
                          /\ images'[i].id = images[i].id
                          /\ images'[i].name = images[i].name
                          /\ IF images[i].id = readers[k].id
                             THEN /\ images'[i].file = readers[k].file
                                  /\ images'[i].url = readers[k].file
                             ELSE images'[i] = images[i]
                   /\ attachments' = attachments
                   /\ markdown' = markdown ]_vars

\* A save has completed after its image was replaced by an archive load or
\* removed: images are held, none with the edited content.
C17_SaveAfterTargetGone ==
    /\ lastOp = "imageSaved"
    /\ images # <<>>
    /\ \A i \in DOMAIN images : images[i].file \notin EditedBlobs

=============================================================================
